---------------------------- MODULE Spec2Model ----------------------------
(***************************************************************************)
(* A model of the handshake Device (src/src/device.rs) and of the          *)
(* PeerServer event loop (src/src/interface/peer_server.rs).               *)
(*                                                                         *)
(* SpecConfig: the configuration of a Device (add).                        *)
(* SpecDevice: two Devices exchanging handshake messages over a network    *)
(* that may replay, reorder and inject datagrams.                          *)
(* SpecServer: one PeerServer with its timers, ingress and egress streams. *)
(* SpecSend: the send tasks send_to_peer spawns, up to the UDP sink.       *)
(* SpecAllocate: threads inside Device::allocate of one Device at once.    *)
(* SpecPoll: the order in which PeerServer::poll takes events from its     *)
(* four streams.                                                           *)
(*                                                                         *)
(* The noise, peer, timer and router modules are not part of the source    *)
(* files at hand; what the model needs of them is taken from the           *)
(* specification and marked as such where it is defined.                   *)
(***************************************************************************)
EXTENDS Integers, Sequences, FiniteSets, TLC

\* ------------------------------------------------------------------------
\* Bounds of the model
\* ------------------------------------------------------------------------
\* receiver ids are drawn from 1..MaxIds (u32 in the code)
MaxIds == 2
\* public keys in existence (the keys a Device may be asked to add)
NumKeys == 3
\* initiations created in one behaviour (every one takes a fresh timestamp)
MaxBegin == 2
\* threads inside Device::allocate at once
NumThreads == 3

\* Bounds of the PeerServer model
\* session indices drawn in one behaviour (1..MaxIndex; u32 in the code)
MaxIndex == 4
\* timestamps of the initiations the remote peer creates (1..MaxRemoteInits)
MaxRemoteInits == 2
\* datagrams and routed inner packets the loop accepts in one behaviour
MaxInputs == 3
\* capacity of a peer's outgoing queue
QueueCap == 2
\* events a stream holds ready at once
MaxReady == 2
\* transport datagrams sent in one behaviour of the send tasks
MaxSends == 4

\* The durations of consts, in ticks of the model clock.  They are scaled
\* down, keeping the order of the code's values (TIMER_RESOLUTION 100 ms,
\* REKEY_TIMEOUT 5 s, KEEPALIVE_TIMEOUT 10 s, REKEY_ATTEMPT_TIME 90 s,
\* REKEY_AFTER_TIME 120 s, REJECT_AFTER_TIME 180 s) and
\* REKEY_AFTER_TIME + 2 * TIMER_RESOLUTION < REJECT_AFTER_TIME.
TIMER_RESOLUTION == 1
REKEY_TIMEOUT == 2
KEEPALIVE_TIMEOUT == 3
REKEY_ATTEMPT_TIME == 4
REKEY_AFTER_TIME == 5
REJECT_AFTER_TIME == 8
\* the persistent keepalive interval a peer may be configured with
PERSISTENT_KEEPALIVE == 4

\* ------------------------------------------------------------------------
\* Program constants
\* ------------------------------------------------------------------------
TYPE_INITIATION == 1
TYPE_RESPONSE == 2

\* ------------------------------------------------------------------------
\* Generic helpers: Option<T> and HashMap<K, V>
\* ------------------------------------------------------------------------
None == <<>>
Some(x) == <<x>>
IsSome(o) == o /= <<>>
Unwrap(o) == o[1]

EmptyMap == [x \in {} |-> 0]
MapInsert(m, k, v) == [x \in (DOMAIN m) \cup {k} |-> IF x = k THEN v ELSE m[x]]
MapRemove(m, k) == [x \in (DOMAIN m) \ {k} |-> m[x]]

\* ========================================================================
\* Part I: Device
\* ========================================================================
VARIABLES
    peers,     \* Device.peers  : device -> sequence of peers (index i is at i+1)
    pk_map,    \* Device.pk_map : device -> (public key -> peer index)
    id_map,    \* Device.id_map : device -> (receiver id -> peer index)
    net,       \* the wire: the latest initiation and the latest response sent
    clock,     \* number of initiations created so far (source of timestamps)
    last,      \* the last call made on a Device, its input and its result
    live,      \* device -> (id -> the peer indices it was returned for by
               \* allocate and not yet released for)
    issued     \* key pairs returned by responders, with the response on the wire

devVars == <<peers, pk_map, id_map, net, clock, last, live, issued>>

VARIABLES
    loop,       \* "running", "cancelled" (poll returned Err) or "panicked"
    has_key,    \* shared_state.interface_info.private_key is Some
    bound,      \* ingress and egress_tx are Some (rebind has run)
    index_map,  \* shared_state.index_map : session index -> peer
    peer,       \* the peers of shared_state
    timers,     \* the delayed TimerMessages not delivered yet
    npackets,   \* inner packets routed to a peer so far (the n-th is packet n)
    nindices,   \* session indices drawn so far
    ninputs,    \* datagrams and routed inner packets accepted so far
    ev,         \* the last event the loop handled and how its handler ended
    out         \* what the last handler emitted, in order

srvVars == <<loop, has_key, bound, index_map, peer, timers, npackets, nindices,
             ninputs,
             ev, out>>

\* The tasks that run beside the loop: the send tasks send_to_peer spawns,
\* and threads that share one Device.
VARIABLES
    nonce,      \* the counter handle_outgoing_transport assigns next
    tasks,      \* the spawned send tasks that have not sent yet, by counter
    egress_rx,  \* the datagrams in the egress channel, oldest first
    udp_sink,   \* the datagrams that reached the UDP sink, in order
    threads     \* where each thread stands in Device::allocate

conVars == <<nonce, tasks, egress_rx, udp_sink, threads>>

\* PeerServer::poll and the streams it takes its events from
VARIABLES
    polling,    \* where poll stands: the loop of a stream, or "parked"
    pending     \* the events each stream holds ready for poll

pollVars == <<polling, pending>>

vars == <<devVars, srvVars, conVars, pollVars>>

Devs == {1, 2}
\* the public key of device d is d; the other keys belong to third parties
PKs == 1 .. NumKeys
DevicePk(d) == d
Ids == 1 .. MaxIds

\* a message as the handshake reads it.  from/to: the static keys it is
\* sealed between; ts: the timestamp of the initiation (in a response: of
\* the initiation it answers, standing for the transcript hash).
Msg(type, sender, receiver, from, to, ts) ==
    [type |-> type, sender |-> sender, receiver |-> receiver,
     from |-> from, to |-> to, ts |-> ts]

\* datagrams that no Device created: one that is empty or starts with an
\* unknown type byte (type 0: process treats both alike, device.rs 149), and
\* one of each handshake type with arbitrary content
Garbage == { Msg(t, 0, 0, 0, 0, 0) : t \in {0, TYPE_INITIATION, TYPE_RESPONSE} }

NewPeer(pk) == [pk |-> pk, state |-> None, timestamp |-> 0]

Key(id, k) == [id |-> id, key |-> k]
KeyPair(confirmed, send, recv) == [confirmed |-> confirmed, send |-> send, recv |-> recv]

Ok(msg, ks) == [ok |-> TRUE, err |-> "", msg |-> msg, ks |-> ks]
Err(e) == [ok |-> FALSE, err |-> e, msg |-> None, ks |-> None]

\* the record of a call: arg is the key or id passed, inp the message
\* passed, pre_* the Device's maps and peers when the call was made
Call(op, d, arg, inp, res) ==
    [op |-> op, dev |-> d, arg |-> arg, inp |-> inp, res |-> res,
     pre_id |-> id_map[d], pre_pk |-> pk_map[d], pre_peers |-> peers[d]]

NoMsg == Msg(0, 0, 0, 0, 0, 0)

\* The wire keeps the most recent datagram of each type (an older one is
\* lost) and delivers a datagram it holds any number of times, to either
\* Device.
Send(wire, m) == {x \in wire : x.type /= m.type} \cup {m}

NoCall == [op |-> "new", dev |-> 1, arg |-> 0, inp |-> NoMsg, res |-> Ok(None, None),
           pre_id |-> EmptyMap, pre_pk |-> EmptyMap, pre_peers |-> <<>>]

\* Device::new (device.rs 32-40)
New ==
    /\ peers = [d \in Devs |-> <<>>]
    /\ pk_map = [d \in Devs |-> EmptyMap]
    /\ id_map = [d \in Devs |-> EmptyMap]
    /\ net = {}
    /\ clock = 0
    /\ last = NoCall
    /\ live = [d \in Devs |-> [i \in Ids |-> <<>>]]
    /\ issued = {}

\* --- Device::add (device.rs 49-74) -------------------------------------
AddDuplicate(d, pk) ==
    /\ pk \in DOMAIN pk_map[d]
    /\ last' = Call("add", d, pk, NoMsg, Err("Duplicate public key"))
    /\ UNCHANGED <<peers, pk_map, id_map, net, clock, live, issued>>

AddOwnKey(d, pk) ==
    /\ pk \notin DOMAIN pk_map[d]
    /\ DevicePk(d) = pk
    /\ last' = Call("add", d, pk, NoMsg,
                    Err("Public key corresponds to secret key of interface"))
    /\ UNCHANGED <<peers, pk_map, id_map, net, clock, live, issued>>

AddInsert(d, pk) ==
    /\ LET idx == Len(peers[d]) IN
       /\ pk_map' = [pk_map EXCEPT ![d] = MapInsert(@, pk, idx)]
       /\ peers' = [peers EXCEPT ![d] = Append(@, NewPeer(pk))]
    /\ last' = Call("add", d, pk, NoMsg, Ok(None, None))
    /\ UNCHANGED <<id_map, net, clock, live, issued>>

\* a plausible slip: the duplicate check is left out
AddNoDuplicateCheck(d, pk) ==
    \/ AddOwnKey(d, pk)
    \/ /\ DevicePk(d) /= pk
       /\ AddInsert(d, pk)

Add(d, pk) ==
    \/ AddDuplicate(d, pk)
    \/ AddOwnKey(d, pk)
    \/ /\ pk \notin DOMAIN pk_map[d]
       /\ DevicePk(d) /= pk
       /\ AddInsert(d, pk)

\* --- Device::release (device.rs 105-109) -------------------------------
\* a plausible slip: the entry is not removed
ReleaseMapKeeps(m, id) == m

ReleaseMap(m, id) == MapRemove(m, id)

Release(d, id) ==
    /\ id \in DOMAIN id_map[d]     \* debug_assert!(m.contains_key(&id))
    /\ id_map' = [id_map EXCEPT ![d] = ReleaseMap(@, id)]
    /\ live' = [live EXCEPT ![d][id] = <<>>]
    /\ last' = Call("release", d, id, NoMsg, Ok(None, None))
    /\ UNCHANGED <<peers, pk_map, net, clock, issued>>

\* --- Device::allocate (device.rs 176-194) ------------------------------
\* every (id, id_map after the call) the loop can return with
\* a plausible slip: no membership check before the insertion
AllocateNoCheck(m, idx) ==
    { [id |-> i, map |-> MapInsert(m, i, idx)] : i \in Ids }

Allocate(m, idx) ==
    { [id |-> i, map |-> MapInsert(m, i, idx)] : i \in Ids \ DOMAIN m }

\* --- Device::allocate called by several threads (device.rs 176-194) ------
\* allocate takes &self: threads that share the Device may be inside it at
\* once.  A thread draws an id, probes id_map under the read lock, and
\* checks again under the write lock before it inserts.  Thread t allocates
\* for peer index t, on Device 1.
Threads == 1 .. NumThreads

Thread(pc, id, lost) == [pc |-> pc, id |-> id, lost |-> lost]

ThreadsNew == threads = [t \in Threads |-> Thread("loop", 0, FALSE)]

\* let id = rng.gen() (181)
AllocateDraw(t) ==
    /\ threads[t].pc = "loop"
    /\ \E id \in Ids : threads' = [threads EXCEPT ![t].pc = "read", ![t].id = id]
    /\ UNCHANGED id_map

\* if self.id_map.read().contains_key(&id) { continue } (184-186)
AllocateProbe(t) ==
    /\ threads[t].pc = "read"
    /\ threads' = [threads EXCEPT ![t].pc =
                      IF threads[t].id \in DOMAIN id_map[1] THEN "loop" ELSE "write"]
    /\ UNCHANGED id_map

\* a plausible slip: no second check under the write lock
WriteNoRecheck(m, id) == TRUE

\* if !m.contains_key(&id) (190)
WriteRecheck(m, id) == id \notin DOMAIN m

\* let mut m = self.id_map.write(); ... m.insert(id, idx); return id
\* (189-193): one step, since the write lock is held throughout
AllocateInsert(t) ==
    /\ threads[t].pc = "write"
    /\ IF WriteRecheck(id_map[1], threads[t].id)
       THEN /\ id_map' = [id_map EXCEPT ![1] = MapInsert(@, threads[t].id, t)]
            /\ threads' = [threads EXCEPT ![t].pc = "returned"]
       ELSE /\ threads' = [threads EXCEPT ![t].pc = "loop", ![t].lost = TRUE]
            /\ UNCHANGED id_map

NextAllocate ==
    \/ \E t \in Threads : AllocateDraw(t)
            /\ UNCHANGED <<peers, pk_map, net, clock, last, live, issued, srvVars, pollVars,
                           nonce, tasks, egress_rx, udp_sink>>
    \/ \E t \in Threads : AllocateProbe(t)
            /\ UNCHANGED <<peers, pk_map, net, clock, last, live, issued, srvVars, pollVars,
                           nonce, tasks, egress_rx, udp_sink>>
    \/ \E t \in Threads : AllocateInsert(t)
            /\ UNCHANGED <<peers, pk_map, net, clock, last, live, issued, srvVars, pollVars,
                           nonce, tasks, egress_rx, udp_sink>>

\* --- Device::lookup_id (device.rs 166-171) -----------------------------
LookupId(d, id) ==
    IF id \in DOMAIN id_map[d] THEN Some(id_map[d][id]) ELSE None

\* --- noise (not among the source files: taken from the specification) ---
\* kdf2 of the final chaining key: (k1, k2).  hs stands for the transcript.
Transcript(pkI, pkR, idI, ts, idR) == <<pkI, pkR, idI, ts, idR>>
Kdf2(hs) == [k1 |-> <<1, hs>>, k2 |-> <<2, hs>>]

\* noise::create_initiation: the initiation takes a timestamp later than
\* every one taken before; the peer remembers the handshake in progress.
\* The call returns a Result: its failure is one of the outcomes.
CreateInitiation(d, idx, sender) ==
    (IF clock < MaxBegin
     THEN { [ok |-> TRUE,
             msg |-> Msg(TYPE_INITIATION, sender, 0, DevicePk(d),
                         peers[d][idx + 1].pk, clock + 1),
             state |-> Some([sender |-> sender, ts |-> clock + 1])] }
     ELSE {})
    \cup { [ok |-> FALSE, msg |-> NoMsg, state |-> None] }

\* noise::consume_initiation: the message must be sealed for this device by
\* a registered peer and carry a timestamp later than the last accepted one
ConsumeInitiation(d, m) ==
    IF m.to = 0 THEN [ok |-> FALSE, err |-> "InvalidMessageFormat", idx |-> 0]
    ELSE IF m.to /= DevicePk(d) THEN [ok |-> FALSE, err |-> "Decryption", idx |-> 0]
    ELSE IF m.from \notin DOMAIN pk_map[d]
         THEN [ok |-> FALSE, err |-> "UnknownPublicKey", idx |-> 0]
    ELSE IF m.ts <= peers[d][pk_map[d][m.from] + 1].timestamp
         THEN [ok |-> FALSE, err |-> "InvalidTimestamp", idx |-> 0]
    ELSE [ok |-> TRUE, err |-> "", idx |-> pk_map[d][m.from]]

\* noise::create_response: the responder's keys are the inverse of the
\* initiator's (send = k2, recv = k1) and are not confirmed
CreateResponse(d, idx, sender, m) ==
    LET k == Kdf2(Transcript(m.from, m.to, m.sender, m.ts, sender)) IN
    { Ok(Some(Msg(TYPE_RESPONSE, sender, m.sender, DevicePk(d), m.from, m.ts)),
         Some(KeyPair(FALSE, Key(sender, k.k2), Key(m.sender, k.k1)))),
      Err("CreateResponse") }

\* the initiator assigns (send = k1, recv = k2); a key carries the id of
\* the side that sends under it (device.rs 257-261: the initiator releases
\* ks_i.send.id, the responder ks_r.send.id)
\* a plausible slip: the initiator takes the responder's assignment
InitiatorKeysSwapped(own, their, k) ==
    KeyPair(TRUE, Key(own, k.k2), Key(their, k.k1))

InitiatorKeys(own, their, k) ==
    KeyPair(TRUE, Key(own, k.k1), Key(their, k.k2))

\* noise::consume_response: the response must name a receiver id of this
\* device whose peer awaits it, and continue that peer's transcript
ConsumeResponse(d, m) ==
    IF m.to = 0 THEN [res |-> Err("InvalidMessageFormat"), idx |-> 0]
    ELSE IF ~IsSome(LookupId(d, m.receiver))
         THEN [res |-> Err("UnknownReceiverId"), idx |-> 0]
    ELSE LET idx == Unwrap(LookupId(d, m.receiver))
             p   == peers[d][idx + 1]
         IN  IF ~IsSome(p.state) \/ m.to /= DevicePk(d) \/ m.from /= p.pk
             THEN [res |-> Err("Decryption"), idx |-> idx]
             ELSE LET st == Unwrap(p.state)
                      k  == Kdf2(Transcript(m.to, m.from, st.sender, st.ts, m.sender))
                  IN  IF st.sender /= m.receiver \/ st.ts /= m.ts
                      THEN [res |-> Err("Decryption"), idx |-> idx]
                      ELSE [res |-> Ok(None, Some(InitiatorKeys(st.sender, m.sender, k))),
                            idx |-> idx]

\* --- Device::begin (device.rs 116-125) ---------------------------------
BeginUnknown(d, pk) ==
    /\ pk \notin DOMAIN pk_map[d]
    /\ last' = Call("begin", d, pk, NoMsg, Err("UnknownPublicKey"))
    /\ UNCHANGED <<peers, pk_map, id_map, net, clock, live, issued>>

BeginKnown(d, pk) ==
    /\ pk \in DOMAIN pk_map[d]
    /\ LET idx == pk_map[d][pk] IN
       \E a \in Allocate(id_map[d], idx) :
       \E c \in CreateInitiation(d, idx, a.id) :
          /\ id_map' = [id_map EXCEPT ![d] = a.map]
          /\ live' = [live EXCEPT ![d][a.id] = Append(@, idx)]
          /\ IF c.ok
             THEN /\ peers' = [peers EXCEPT ![d][idx + 1].state = c.state]
                  /\ net' = Send(net, c.msg)
                  /\ clock' = clock + 1
                  /\ last' = Call("begin", d, pk, NoMsg, Ok(Some(c.msg), None))
             ELSE /\ last' = Call("begin", d, pk, NoMsg, Err("CreateInitiation"))
                  /\ UNCHANGED <<peers, net, clock>>
    /\ UNCHANGED <<pk_map, issued>>

Begin(d, pk) ==
    \/ BeginUnknown(d, pk)
    \/ BeginKnown(d, pk)

\* --- Device::process (device.rs 132-151) -------------------------------
\* consume_initiation failed: `?` returns before anything is allocated
ProcessInitiationRejected(d, m) ==
    /\ m.type = TYPE_INITIATION
    /\ ~ConsumeInitiation(d, m).ok
    /\ last' = Call("process", d, 0, m, Err(ConsumeInitiation(d, m).err))
    /\ UNCHANGED <<peers, pk_map, id_map, net, clock, live, issued>>

\* consume_initiation succeeded: allocate, create the response, and release
\* the id again when create_response fails
ProcessInitiationAccepted(d, m) ==
    /\ m.type = TYPE_INITIATION
    /\ ConsumeInitiation(d, m).ok
    /\ LET idx == ConsumeInitiation(d, m).idx IN
       \E a \in Allocate(id_map[d], idx) :
       \E r \in CreateResponse(d, idx, a.id, m) :
          /\ peers' = [peers EXCEPT ![d][idx + 1].timestamp = m.ts]
          /\ last' = Call("process", d, 0, m, r)
          /\ IF r.ok
             THEN /\ id_map' = [id_map EXCEPT ![d] = a.map]
                  /\ live' = [live EXCEPT ![d][a.id] = Append(@, idx)]
                  /\ net' = Send(net, Unwrap(r.msg))
                  /\ issued' = {[msg |-> Unwrap(r.msg), ks |-> Unwrap(r.ks)]}
             ELSE /\ id_map' = [id_map EXCEPT ![d] = ReleaseMap(a.map, a.id)]
                  /\ UNCHANGED <<live, net, issued>>
    /\ UNCHANGED <<pk_map, clock>>

ProcessResponse(d, m) ==
    /\ m.type = TYPE_RESPONSE
    /\ LET c == ConsumeResponse(d, m) IN
       /\ last' = Call("process", d, 0, m, c.res)
       /\ peers' = IF c.res.ok THEN [peers EXCEPT ![d][c.idx + 1].state = None]
                   ELSE peers
    /\ UNCHANGED <<pk_map, id_map, net, clock, live, issued>>

ProcessInvalid(d, m) ==
    /\ m.type \notin {TYPE_INITIATION, TYPE_RESPONSE}
    /\ last' = Call("process", d, 0, m, Err("InvalidMessageFormat"))
    /\ UNCHANGED <<peers, pk_map, id_map, net, clock, live, issued>>

\* a plausible slip: the id is allocated before the initiation is consumed,
\* and stays allocated when the initiation is rejected
ProcessAllocatesFirst(d, m) ==
    \/ /\ m.type = TYPE_INITIATION
       /\ ~ConsumeInitiation(d, m).ok
       /\ \E a \in Allocate(id_map[d], 0) :
             /\ id_map' = [id_map EXCEPT ![d] = a.map]
             /\ live' = [live EXCEPT ![d][a.id] = Append(@, 0)]
       /\ last' = Call("process", d, 0, m, Err(ConsumeInitiation(d, m).err))
       /\ UNCHANGED <<peers, pk_map, net, clock, issued>>
    \/ ProcessInitiationAccepted(d, m)
    \/ ProcessResponse(d, m)
    \/ ProcessInvalid(d, m)

Process(d, m) ==
    \/ ProcessInitiationRejected(d, m)
    \/ ProcessInitiationAccepted(d, m)
    \/ ProcessResponse(d, m)
    \/ ProcessInvalid(d, m)

\* ========================================================================
\* Part II: PeerServer
\* ========================================================================
Peers == {1}
Indices == 1 .. MaxIndex

\* A Timestamp is represented by the time that has elapsed since it was
\* taken, counted up to the first value from which on every comparison the
\* code makes with it has the same outcome (Old); Timestamp::now() is 0 and
\* Timestamp::unset() is Old.  Tick ages every timestamp.
Older(elapsed, old) == IF elapsed < old THEN elapsed + 1 ELSE old

\* --- peer (not among the source files: taken from the specification) -----
\* a session: ready once it holds transport keys (a session created by
\* initiate_new_session is not, until the response arrives).
\* idle is a history of the model, not a field of the code: the time since
\* the last transport datagram was received under the session, as long as
\* no transport datagram has been sent under it since (-1: none was
\* received, or one has been sent since); it is counted up to MaxIdle.
MaxIdle == KEEPALIVE_TIMEOUT + 2 * TIMER_RESOLUTION

Session(i, ready) ==
    [idx |-> i, ready |-> ready, birth |-> 0,
     last_sent |-> KEEPALIVE_TIMEOUT,
     last_received |-> IF ready THEN 0 ELSE KEEPALIVE_TIMEOUT,
     keepalive_sent |-> FALSE,
     idle |-> -1]

NewServerPeer(keepalive) ==
    [sessions |-> [past |-> None, current |-> None, next |-> None],
     outgoing_queue |-> <<>>,
     last_sent_init |-> REKEY_TIMEOUT,
     last_handshake |-> REKEY_AFTER_TIME + 1,
     last_tun_queue |-> REKEY_ATTEMPT_TIME + 1,
     last_tai64n |-> 0,
     attempt_began |-> REKEY_ATTEMPT_TIME + 1,
     keepalive |-> keepalive]

\* attempt_began is a history of the model, not a field of the code: the
\* time since the initiation was sent that began the attempt series in
\* progress, that is the last initiation sent otherwise than as a
\* retransmission by the Rekey timer of a session waiting in next.
BeginsAttempt(r) == IF r.ok THEN [r.peer EXCEPT !.attempt_began = 0] ELSE r.peer

EndsAttempt(pr) == [pr EXCEPT !.attempt_began = REKEY_ATTEMPT_TIME + 1]

Slots == {"past", "current", "next"}

\* Peer::find_session: the slot that holds index i ("none": no slot does)
FindSession(p, i) ==
    IF IsSome(p.sessions.next) /\ Unwrap(p.sessions.next).idx = i THEN "next"
    ELSE IF IsSome(p.sessions.current) /\ Unwrap(p.sessions.current).idx = i THEN "current"
    ELSE IF IsSome(p.sessions.past) /\ Unwrap(p.sessions.past).idx = i THEN "past"
    ELSE "none"

HeldIndices(p) == { Unwrap(p.sessions[s]).idx : s \in {x \in Slots : IsSome(p.sessions[x])} }

\* Peer::ready_for_transport: a current session that is not too old (the
\* message counters stay far below REJECT_AFTER_MESSAGES within MaxTime)
ReadyForTransport(p) ==
    /\ IsSome(p.sessions.current)
    /\ Unwrap(p.sessions.current).ready
    /\ Unwrap(p.sessions.current).birth < REJECT_AFTER_TIME

\* Peer::needs_new_handshake: no usable current session, or one that is due
\* for a rekey; refused while the last initiation is younger than
\* REKEY_TIMEOUT
NeedsNewHandshake(p) ==
    /\ p.last_sent_init >= REKEY_TIMEOUT
    /\ \/ ~ReadyForTransport(p)
       \/ Unwrap(p.sessions.current).birth >= REKEY_AFTER_TIME

\* Peer::queue_egress: a bounded FIFO that drops its oldest packet; the
\* time the queue became non-empty is remembered
QueueEgress(p, pkt) ==
    LET q == Append(p.outgoing_queue, pkt) IN
    [p EXCEPT !.outgoing_queue = IF Len(q) > QueueCap THEN Tail(q) ELSE q,
              !.last_tun_queue = IF p.outgoing_queue = <<>> THEN 0 ELSE @]

\* The index of a new session is drawn at random from u32 and is unique
\* among the live ones.  Behaviours that differ by a renaming of indices
\* are alike, and a random u32 practically never repeats an earlier draw:
\* the model draws the indices 1, 2, ... in turn.
FreshIndices == IF nindices < MaxIndex THEN {nindices + 1} ELSE {}

\* Peer::initiate_new_session: the new session takes the next slot; the
\* index of the session it displaces there is returned as dead
InitiateNewSession(p, i) ==
    [peer |-> [p EXCEPT !.sessions.next = Some(Session(i, FALSE))],
     dead |-> IF IsSome(p.sessions.next) THEN Some(Unwrap(p.sessions.next).idx) ELSE None]

\* Peer::complete_incoming_handshake: the responder's session becomes
\* current when there is no current session, and next otherwise
CompleteIncomingHandshake(p, i, ts) ==
    LET slot == IF IsSome(p.sessions.current) THEN "next" ELSE "current" IN
    [p EXCEPT !.sessions[slot] = Some(Session(i, TRUE)),
              !.last_tai64n = ts]

\* promotion: next becomes current, current becomes past and the session
\* that was past dies; its index is returned
\* of a session in past only the index and the keys are used any more
Retired(o) ==
    IF IsSome(o)
    THEN Some([idx |-> Unwrap(o).idx, ready |-> TRUE, birth |-> REJECT_AFTER_TIME,
               last_sent |-> KEEPALIVE_TIMEOUT, last_received |-> KEEPALIVE_TIMEOUT,
               keepalive_sent |-> FALSE, idle |-> -1])
    ELSE None

Promote(p, s) ==
    [peer |-> [p EXCEPT !.sessions = [past |-> Retired(p.sessions.current),
                                      current |-> Some(s),
                                      next |-> None]],
     dead |-> IF IsSome(p.sessions.past) THEN Some(Unwrap(p.sessions.past).idx) ELSE None]

\* Peer::process_incoming_handshake_response: the session awaiting the
\* response in next gets its keys and is promoted
ProcessIncomingHandshakeResponse(p, i) ==
    LET r == Promote(p, [Unwrap(p.sessions.next) EXCEPT !.ready = TRUE,
                                                       !.birth = 0,
                                                       !.last_received = 0])
    IN  [peer |-> [r.peer EXCEPT !.last_handshake = 0], dead |-> r.dead]

\* Peer::handle_outgoing_transport: encrypts under the current session
HandleOutgoingTransport(p) ==
    [p EXCEPT !.sessions.current = Some([Unwrap(@) EXCEPT !.last_sent = 0, !.idle = -1])]

\* what a handler emits
ToPeer(kind, pkt) == [to |-> "peer", kind |-> kind, pkt |-> pkt]
ToTunnel(pkt) == [to |-> "tunnel", kind |-> "data", pkt |-> pkt]

\* Timer::spawn_delayed: a TimerMessage and the time left until it is due
TimerMessage(kind, p, i, delay) == [kind |-> kind, peer |-> p, idx |-> i, left |-> delay]

\* the event the loop handled: its kind, its argument, how the handler
\* ended, and for a transport datagram that decrypts the inner packet it
\* carries ("none" otherwise)
Event(kind, arg, res) == [kind |-> kind, arg |-> arg, res |-> res, inner |-> "none"]

\* PeerServer::new (peer_server.rs 81-93), with the peers of shared_state
ServerNew(keepalive) ==
    /\ loop = "running"
    /\ has_key = FALSE
    /\ bound = FALSE
    /\ index_map = EmptyMap
    /\ peer = [p \in Peers |-> NewServerPeer(keepalive)]
    /\ timers = {}
    /\ npackets = 0
    /\ nindices = 0
    /\ ninputs = 0
    /\ ev = Event("new", 0, "ok")
    /\ out = <<>>

\* a peer is configured without or with a persistent keepalive interval
InitServer == \E keepalive \in {0, PERSISTENT_KEEPALIVE} : ServerNew(keepalive)

\* --- send_handshake_init (peer_server.rs 277-296) -----------------------
\* The outcomes of send_handshake_init for peer p whose record is pr: one
\* for each index the new session may draw.
\* a plausible slip: the index of the abandoned next session is not removed
SendHandshakeInitKeepsDead(p, pr) ==
    IF ~has_key
    THEN {[ok |-> FALSE, peer |-> pr, map |-> index_map, arm |-> {}, out |-> <<>>, drawn |-> nindices]}
    ELSE { LET r == InitiateNewSession(pr, i) IN
           [ok |-> bound,
            peer |-> IF bound THEN [r.peer EXCEPT !.last_sent_init = 0] ELSE r.peer,
            map |-> MapInsert(index_map, i, p),
            arm |-> IF bound
                    THEN {TimerMessage("Rekey", p, i, REKEY_TIMEOUT + 2 * TIMER_RESOLUTION)}
                    ELSE {},
            out |-> IF bound THEN <<ToPeer("init", i)>> ELSE <<>>,
            drawn |-> i]
           : i \in FreshIndices }

SendHandshakeInit(p, pr) ==
    IF ~has_key
    THEN {[ok |-> FALSE, peer |-> pr, map |-> index_map, arm |-> {}, out |-> <<>>, drawn |-> nindices]}
    ELSE { LET r  == InitiateNewSession(pr, i)
               m1 == MapInsert(index_map, i, p)
               m2 == IF IsSome(r.dead) THEN MapRemove(m1, Unwrap(r.dead)) ELSE m1
           IN  IF ~bound
               THEN [ok |-> FALSE, peer |-> r.peer, map |-> m2, arm |-> {}, out |-> <<>>, drawn |-> i]
               ELSE [ok |-> TRUE,
                     peer |-> [r.peer EXCEPT !.last_sent_init = 0],
                     map |-> m2,
                     arm |-> {TimerMessage("Rekey", p, i, REKEY_TIMEOUT + 2 * TIMER_RESOLUTION)},
                     out |-> <<ToPeer("init", i)>>,
                     drawn |-> i]
           : i \in FreshIndices }

\* the queued packets, encrypted and sent in queue order
Drained(pr) == [k \in 1 .. Len(pr.outgoing_queue) |-> ToPeer("data", pr.outgoing_queue[k])]

Drain(pr) == [HandleOutgoingTransport(pr) EXCEPT !.outgoing_queue = <<>>]

Keepalive == ToPeer("keepalive", 0)

\* Peer::handle_outgoing_transport returns a Result, and every caller
\* handles its Err: whether it encrypts is an input of the handler.  In a
\* drain, fails is the position of the queued packet whose encryption
\* fails (0: none does).
Fails(pr) == 0 .. Len(pr.outgoing_queue)

\* while let Some(packet) = pop_front() { send_to_peer(encrypt(packet)?)? }
\* (205-207, 412-414): the packets before the failing one are sent, the
\* failing one is popped and the loop is left by the ? operator
PopFront(pr, fails) ==
    IF fails = 0
    THEN [ok |-> TRUE, peer |-> Drain(pr), out |-> Drained(pr)]
    ELSE [ok |-> FALSE,
          peer |-> [(IF fails > 1 THEN HandleOutgoingTransport(pr) ELSE pr)
                       EXCEPT !.outgoing_queue =
                           SubSeq(pr.outgoing_queue, fails + 1, Len(pr.outgoing_queue))],
          out |-> SubSeq(Drained(pr), 1, fails - 1)]

\* drain(..).collect() and a loop that logs a failed encryption and goes
\* on (254-261): every packet leaves the queue, the failing one is not sent
DrainAll(pr, fails) ==
    IF fails = 0
    THEN [peer |-> Drain(pr), out |-> Drained(pr)]
    ELSE [peer |-> [(IF Len(pr.outgoing_queue) > 1 THEN HandleOutgoingTransport(pr) ELSE pr)
                       EXCEPT !.outgoing_queue = <<>>],
          out |-> SubSeq(Drained(pr), 1, fails - 1)
                    \o SubSeq(Drained(pr), fails + 1, Len(pr.outgoing_queue))]

\* a handler ended with an error (logged and dropped by poll) and changed
\* nothing
Dropped(kind) ==
    /\ ev' = Event(kind, 0, "err")
    /\ out' = <<>>
    /\ UNCHANGED <<loop, has_key, bound, index_map, peer, timers, npackets, nindices, ninputs>>

\* --- configuration events (poll, peer_server.rs 433-452) ----------------
ConfigPrivateKey ==
    /\ loop = "running"
    /\ has_key' = TRUE
    /\ bound' = TRUE
    /\ ev' = Event("config", 0, "ok")
    /\ out' = <<>>
    /\ UNCHANGED <<loop, index_map, peer, timers, npackets, nindices, ninputs>>

ConfigListenPort ==
    /\ loop = "running"
    /\ bound' = TRUE
    /\ ev' = Event("config", 0, "ok")
    /\ out' = <<>>
    /\ UNCHANGED <<loop, has_key, index_map, peer, timers, npackets, nindices, ninputs>>

ConfigOther ==
    /\ loop = "running"
    /\ ev' = Event("config", 0, "ok")
    /\ out' = <<>>
    /\ UNCHANGED <<loop, has_key, bound, index_map, peer, timers, npackets, nindices, ninputs>>

\* --- ingress datagrams --------------------------------------------------
\* A datagram: its first byte, whether it is empty, too short to hold a
\* receiver index, or of the length of its type, the receiver index it
\* names, whether its MACs and ciphertexts verify, the timestamp of an
\* initiation and the inner packet of a transport message.
Datagram(type, shape, idx, good, ts, payload) ==
    [type |-> type, shape |-> shape, idx |-> idx, good |-> good, ts |-> ts,
     payload |-> payload]

Datagrams ==
    {Datagram(0, "empty", 0, FALSE, 0, "none")}
    \cup {Datagram(5, "ok", 0, FALSE, 0, "none")}
    \cup {Datagram(t, "short", 0, FALSE, 0, "none") : t \in 1 .. 4}
    \cup {Datagram(1, "ok", 0, FALSE, 1, "none")}
    \cup {Datagram(1, "ok", 0, TRUE, ts, "none") : ts \in 1 .. MaxRemoteInits}
    \cup {Datagram(t, "ok", 1, FALSE, 0, "none") : t \in 2 .. 4}
    \cup {Datagram(t, "ok", i, TRUE, 0, "none") : t \in 2 .. 3, i \in Indices}
    \cup {Datagram(4, "ok", i, TRUE, 0, pl) : i \in Indices, pl \in {"keepalive", "data", "badsource"}}

\* handle_ingress_packet (144-153): packet[0] of an empty datagram is out
\* of bounds
IngressEmpty(dg) ==
    /\ dg.shape = "empty"
    /\ loop' = "panicked"
    /\ ev' = Event("ingress", dg.type, "panic")
    /\ out' = <<>>
    /\ UNCHANGED <<has_key, bound, index_map, peer, timers, npackets, nindices, ninputs>>

IngressUnknownType(dg) ==
    /\ dg.shape /= "empty"
    /\ dg.type \notin 1 .. 4
    /\ Dropped("ingress")

\* handle_ingress_handshake_init (155-180)
IngressHandshakeInitRejected(dg) ==
    /\ dg.shape /= "empty"
    /\ dg.type = 1
    /\ \/ dg.shape /= "ok"
       \/ ~dg.good
       \/ ~has_key
       \/ \A p \in Peers : dg.ts <= peer[p].last_tai64n
    /\ Dropped("ingress")

IngressHandshakeInitAccepted(dg) ==
    /\ dg.shape = "ok"
    /\ dg.type = 1
    /\ dg.good
    /\ has_key
    /\ \E p \in Peers :
          /\ dg.ts > peer[p].last_tai64n
          /\ \E i \in FreshIndices :
                /\ peer' = [peer EXCEPT ![p] = CompleteIncomingHandshake(@, i, dg.ts)]
                /\ index_map' = MapInsert(index_map, i, p)
                /\ out' = <<ToPeer("resp", i)>>
                /\ nindices' = i
    /\ ninputs < MaxInputs
    /\ ninputs' = ninputs + 1
    /\ ev' = Event("ingress", dg.type, "ok")
    /\ UNCHANGED <<loop, has_key, bound, timers, npackets>>

\* handle_ingress_handshake_resp (183-229)
ResponseExpected(dg) ==
    /\ dg.shape = "ok"
    /\ dg.good
    /\ dg.idx \in DOMAIN index_map
    /\ LET pr == peer[index_map[dg.idx]] IN
          /\ IsSome(pr.sessions.next)
          /\ Unwrap(pr.sessions.next).idx = dg.idx
          /\ ~Unwrap(pr.sessions.next).ready

IngressHandshakeRespRejected(dg) ==
    /\ dg.shape /= "empty"
    /\ dg.type = 2
    /\ ~ResponseExpected(dg)
    /\ Dropped("ingress")

\* what the handler sends once the session is current (202-213): the queued
\* packets, or a keepalive when there are none
RespSends(pr) ==
    IF ~ReadyForTransport(pr)
    THEN {[ok |-> TRUE, peer |-> pr, out |-> <<>>]}
    ELSE IF pr.outgoing_queue /= <<>>
    THEN {PopFront(pr, fails) : fails \in Fails(pr)}
    ELSE {[ok |-> TRUE, peer |-> HandleOutgoingTransport(pr), out |-> <<Keepalive>>],
          [ok |-> FALSE, peer |-> pr, out |-> <<>>]}

\* the three timers are armed after the sends (216-227): a failed
\* encryption leaves the handler before them
IngressHandshakeRespAccepted(dg) ==
    /\ dg.type = 2
    /\ ResponseExpected(dg)
    /\ LET p  == index_map[dg.idx]
           r  == ProcessIncomingHandshakeResponse(peer[p], dg.idx)
           ka == IF r.peer.keepalive > 0
                 THEN {TimerMessage("PersistentKeepAlive", p, dg.idx, r.peer.keepalive)}
                 ELSE {}
       IN  /\ index_map' = IF IsSome(r.dead) THEN MapRemove(index_map, Unwrap(r.dead))
                                             ELSE index_map
           /\ \E s \in RespSends(r.peer) :
                 /\ peer' = [peer EXCEPT ![p] = EndsAttempt(s.peer)]
                 /\ out' = s.out
                 /\ ev' = Event("ingress", dg.type, IF s.ok THEN "ok" ELSE "err")
                 /\ timers' = IF s.ok
                               THEN timers \cup (ka) \cup
                                    ({TimerMessage("PassiveKeepAlive", p, dg.idx, KEEPALIVE_TIMEOUT),
                                      TimerMessage("Reject", p, dg.idx, REJECT_AFTER_TIME)})
                               ELSE timers
    /\ ninputs < MaxInputs
    /\ ninputs' = ninputs + 1
    /\ UNCHANGED <<loop, has_key, bound, npackets, nindices>>

\* handle_ingress_cookie_reply (231-239) and handle_ingress_transport
\* (241-275): &packet[4..] of a datagram shorter than four bytes is out of
\* bounds, and read_u32 of one shorter than eight panics
IngressShortIndex(dg) ==
    /\ dg.shape = "short"
    /\ dg.type \in {3, 4}
    /\ loop' = "panicked"
    /\ ev' = Event("ingress", dg.type, "panic")
    /\ out' = <<>>
    /\ UNCHANGED <<has_key, bound, index_map, peer, timers, npackets, nindices, ninputs>>

IngressCookieReplyRejected(dg) ==
    /\ dg.shape = "ok"
    /\ dg.type = 3
    /\ dg.idx \notin DOMAIN index_map \/ ~dg.good
    /\ Dropped("ingress")

IngressCookieReply(dg) ==
    /\ dg.shape = "ok"
    /\ dg.type = 3
    /\ dg.idx \in DOMAIN index_map
    /\ dg.good
    /\ ev' = Event("ingress", dg.type, "ok")
    /\ out' = <<>>
    /\ UNCHANGED <<loop, has_key, bound, index_map, peer, timers, npackets, nindices, ninputs>>

\* Peer::handle_incoming_transport accepts a datagram that decrypts under a
\* session the peer holds
TransportAccepted(dg) ==
    /\ dg.shape = "ok"
    /\ dg.good
    /\ dg.idx \in DOMAIN index_map
    /\ LET pr   == peer[index_map[dg.idx]]
           slot == FindSession(pr, dg.idx)
       IN  /\ slot /= "none"
           /\ Unwrap(pr.sessions[slot]).ready

\* a plausible slip: the datagram is taken for an inner packet before its
\* receiver index is looked up
IngressTransportUnchecked(dg) ==
    /\ dg.shape = "ok"
    /\ dg.type = 4
    /\ ~TransportAccepted(dg)
    /\ ev' = Event("ingress", dg.type, "err")
    /\ out' = <<ToTunnel(dg.idx)>>
    /\ UNCHANGED <<loop, has_key, bound, index_map, peer, timers, npackets, nindices, ninputs>>

\* the receiver index is unknown (244) or handle_incoming_transport fails
\* (247): the handler leaves through ? before it has changed anything
IngressTransportRejected(dg) ==
    /\ dg.shape = "ok"
    /\ dg.type = 4
    /\ ~TransportAccepted(dg)
    /\ ev' = Event("ingress", dg.type, "err")
    /\ out' = <<>>
    /\ UNCHANGED <<loop, has_key, bound, index_map, peer, timers, npackets, nindices, ninputs>>

\* Peer::handle_incoming_transport: the session notes the reception; a
\* session in next is promoted
HandleIncomingTransport(pr, i) ==
    LET slot == FindSession(pr, i)
        s    == [Unwrap(pr.sessions[slot]) EXCEPT !.last_received = 0,
                                                  !.keepalive_sent = FALSE,
                                                  !.idle = 0]
    IN  IF slot = "next"
        THEN [peer |-> Promote(pr, s).peer, transition |-> Some(Promote(pr, s).dead)]
        ELSE IF slot = "current"
        THEN [peer |-> [pr EXCEPT !.sessions.current = Some(s)], transition |-> None]
        ELSE [peer |-> pr, transition |-> None]

\* Router::validate_source (not among the source files): whether the
\* source address of the inner packet is one the peer may use
ValidateSource(dg) == dg.payload /= "badsource"

\* a plausible slip: the inner packet goes to the tunnel unchecked
TunnelWritesUnchecked(dg) == <<ToTunnel(dg.idx)>>

\* what the handler writes to the tunnel (266-273): nothing for a
\* keepalive, nothing when validate_source fails, else the inner packet
TunnelWrites(dg) ==
    IF dg.payload = "keepalive" THEN <<>>
    ELSE IF ~ValidateSource(dg) THEN <<>>
    ELSE <<ToTunnel(dg.idx)>>

IngressTransport(dg) ==
    /\ dg.type = 4
    /\ ninputs < MaxInputs
    /\ TransportAccepted(dg)
    /\ LET p == index_map[dg.idx]
           r == HandleIncomingTransport(peer[p], dg.idx)
       IN  /\ index_map' = IF IsSome(r.transition) /\ IsSome(Unwrap(r.transition))
                           THEN MapRemove(index_map, Unwrap(Unwrap(r.transition)))
                           ELSE index_map
           /\ \E fails \in (IF IsSome(r.transition) THEN Fails(r.peer) ELSE {0}) :
                 LET d == IF IsSome(r.transition) /\ r.peer.outgoing_queue /= <<>>
                          THEN DrainAll(r.peer, fails)
                          ELSE [peer |-> r.peer, out |-> <<>>]
                 IN  /\ peer' = [peer EXCEPT ![p] = d.peer]
                     /\ out' = d.out \o TunnelWrites(dg)
    /\ ev' = [Event("ingress", dg.type, IF ValidateSource(dg) THEN "ok" ELSE "err")
                 EXCEPT !.inner = dg.payload]
    /\ ninputs' = ninputs + 1
    /\ UNCHANGED <<loop, has_key, bound, timers, npackets, nindices>>

HandleIngressPacket(dg) ==
    /\ loop = "running"
    /\ bound
    /\ \/ IngressEmpty(dg)
       \/ IngressUnknownType(dg)
       \/ IngressHandshakeInitRejected(dg)
       \/ IngressHandshakeInitAccepted(dg)
       \/ IngressHandshakeRespRejected(dg)
       \/ IngressHandshakeRespAccepted(dg)
       \/ IngressShortIndex(dg)
       \/ IngressCookieReplyRejected(dg)
       \/ IngressCookieReply(dg)
       \/ IngressTransportRejected(dg)
       \/ IngressTransport(dg)

\* --- timers (handle_timer, peer_server.rs 298-394) ----------------------
\* a timer handler that bails, after arming the timers of arm
TimerBails(t, arm) ==
    /\ timers' = (timers \ {t}) \cup (arm)
    /\ ev' = Event(t.kind, t.idx, "err")
    /\ out' = <<>>
    /\ UNCHANGED <<loop, has_key, bound, index_map, peer, npackets, nindices, ninputs>>

TimerSendsInit(t, retransmits) ==
    \E r \in SendHandshakeInit(t.peer, peer[t.peer]) :
        /\ peer' = [peer EXCEPT ![t.peer] = IF retransmits THEN r.peer ELSE BeginsAttempt(r)]
        /\ index_map' = r.map
        /\ timers' = (timers \ {t}) \cup (r.arm)
        /\ out' = r.out
        /\ ev' = Event(t.kind, t.idx, IF r.ok THEN "ok" ELSE "err")
        /\ nindices' = r.drawn
        /\ UNCHANGED <<loop, has_key, bound, npackets, ninputs>>

TimerRekeyNext(t) ==
    /\ t.kind = "Rekey"
    /\ FindSession(peer[t.peer], t.idx) = "next"
    /\ LET pr == peer[t.peer] IN
       IF pr.last_sent_init < REKEY_TIMEOUT
       THEN TimerBails(t, {TimerMessage("Rekey", t.peer, t.idx,
                REKEY_TIMEOUT - pr.last_sent_init + 2 * TIMER_RESOLUTION)})
       ELSE IF pr.last_tun_queue > REKEY_ATTEMPT_TIME
       THEN /\ peer' = [peer EXCEPT ![t.peer].last_tun_queue = REKEY_ATTEMPT_TIME + 1]
            /\ timers' = timers \ {t}
            /\ ev' = Event(t.kind, t.idx, "err")
            /\ out' = <<>>
            /\ UNCHANGED <<loop, has_key, bound, index_map, npackets, nindices, ninputs>>
       ELSE TimerSendsInit(t, TRUE)

TimerRekeyCurrent(t) ==
    /\ t.kind = "Rekey"
    /\ FindSession(peer[t.peer], t.idx) = "current"
    /\ LET since_last_handshake == peer[t.peer].last_handshake IN
       IF since_last_handshake <= REKEY_AFTER_TIME
       THEN TimerBails(t, {TimerMessage("Rekey", t.peer, t.idx,
                REKEY_AFTER_TIME - since_last_handshake + 2 * TIMER_RESOLUTION)})
       ELSE TimerSendsInit(t, FALSE)

TimerRekeyDead(t) ==
    /\ t.kind = "Rekey"
    /\ FindSession(peer[t.peer], t.idx) \in {"past", "none"}
    /\ TimerBails(t, {})

TimerReject(t) ==
    /\ t.kind = "Reject"
    /\ LET slot == FindSession(peer[t.peer], t.idx) IN
       peer' = IF slot = "none" THEN peer
               ELSE [peer EXCEPT ![t.peer].sessions[slot] = None]
    /\ index_map' = MapRemove(index_map, t.idx)
    /\ timers' = timers \ {t}
    /\ ev' = Event(t.kind, t.idx, "ok")
    /\ out' = <<>>
    /\ UNCHANGED <<loop, has_key, bound, npackets, nindices, ninputs>>

\* a plausible slip: the keepalive is sent without a look at the slot
TimerKeepAliveUnchecked(t) ==
    /\ t.kind \in {"PassiveKeepAlive", "PersistentKeepAlive"}
    /\ FindSession(peer[t.peer], t.idx) /= "current"
    /\ timers' = timers \ {t}
    /\ ev' = Event(t.kind, t.idx, "ok")
    /\ out' = <<Keepalive>>
    /\ UNCHANGED <<loop, has_key, bound, index_map, peer, npackets, nindices, ninputs>>

\* find_session finds no session, or one that is not current (350-351,
\* 379-380): the handler leaves through ? before it sends or arms
TimerKeepAliveExpired(t) ==
    /\ t.kind \in {"PassiveKeepAlive", "PersistentKeepAlive"}
    /\ FindSession(peer[t.peer], t.idx) /= "current"
    /\ TimerBails(t, {})

TimerPassiveKeepAlive(t) ==
    /\ t.kind = "PassiveKeepAlive"
    /\ FindSession(peer[t.peer], t.idx) = "current"
    /\ LET session == Unwrap(peer[t.peer].sessions.current)
           since_last_recv == session.last_received
           since_last_send == session.last_sent
           again(wait) == {TimerMessage("PassiveKeepAlive", t.peer, t.idx, wait)}
       IN  IF since_last_recv < KEEPALIVE_TIMEOUT
           THEN TimerBails(t, again(KEEPALIVE_TIMEOUT - since_last_recv + TIMER_RESOLUTION))
           ELSE IF since_last_send < KEEPALIVE_TIMEOUT
           THEN TimerBails(t, again(KEEPALIVE_TIMEOUT - since_last_send + TIMER_RESOLUTION))
           ELSE IF session.keepalive_sent
           THEN TimerBails(t, again(KEEPALIVE_TIMEOUT))
           ELSE \E encrypts \in BOOLEAN :
                LET marked == [peer[t.peer] EXCEPT !.sessions.current =
                                  Some([session EXCEPT !.keepalive_sent = TRUE])]
                IN  /\ peer' = [peer EXCEPT ![t.peer] =
                                   IF encrypts THEN HandleOutgoingTransport(marked) ELSE marked]
                    /\ timers' = (timers \ {t}) \cup
                                 (IF encrypts THEN again(KEEPALIVE_TIMEOUT) ELSE {})
                    /\ out' = IF encrypts THEN <<Keepalive>> ELSE <<>>
                    /\ ev' = Event(t.kind, t.idx, IF encrypts THEN "ok" ELSE "err")
                    /\ UNCHANGED <<loop, has_key, bound, index_map, npackets, nindices, ninputs>>

TimerPersistentKeepAlive(t) ==
    /\ t.kind = "PersistentKeepAlive"
    /\ FindSession(peer[t.peer], t.idx) = "current"
    /\ \E encrypts \in BOOLEAN :
          /\ peer' = [peer EXCEPT ![t.peer] =
                         IF encrypts THEN HandleOutgoingTransport(@) ELSE @]
          /\ timers' = (timers \ {t}) \cup
                       (IF encrypts /\ peer[t.peer].keepalive > 0
                        THEN {TimerMessage("PersistentKeepAlive", t.peer, t.idx,
                                           peer[t.peer].keepalive)}
                        ELSE {})
          /\ out' = IF encrypts THEN <<Keepalive>> ELSE <<>>
          /\ ev' = Event(t.kind, t.idx, IF encrypts THEN "ok" ELSE "err")
    /\ UNCHANGED <<loop, has_key, bound, index_map, npackets, nindices, ninputs>>

HandleTimer(t) ==
    /\ loop = "running"
    /\ t.left = 0
    /\ \/ TimerRekeyNext(t)
       \/ TimerRekeyCurrent(t)
       \/ TimerRekeyDead(t)
       \/ TimerReject(t)
       \/ TimerKeepAliveExpired(t)
       \/ TimerPassiveKeepAlive(t)
       \/ TimerPersistentKeepAlive(t)

\* --- egress packets (handle_egress_packet, peer_server.rs 397-424) ------
\* an inner packet of the tunnel: whether its size is within bounds (not
\* empty, not longer than MAX_CONTENT_SIZE) and the peer the router
\* resolves it to (0: none)
UtunPacket(sized, route) == [sized |-> sized, route |-> route]

UtunPackets ==
    {UtunPacket(FALSE, 0), UtunPacket(TRUE, 0)} \cup {UtunPacket(TRUE, p) : p \in Peers}

EgressRejected(packet) ==
    /\ ~packet.sized \/ packet.route \notin Peers
    /\ Dropped("egress")

\* needs_new_handshake and send_handshake_init (416-422), after the packets
\* of sent were handed to send_to_peer
EgressHandshake(p, pr, sent) ==
    IF NeedsNewHandshake(pr)
    THEN \E r \in SendHandshakeInit(p, pr) :
             /\ peer' = [peer EXCEPT ![p] = BeginsAttempt(r)]
             /\ index_map' = r.map
             /\ timers' = timers \cup (r.arm)
             /\ out' = sent \o r.out
             /\ ev' = Event("egress", npackets + 1, IF r.ok THEN "ok" ELSE "err")
             /\ nindices' = r.drawn
    ELSE /\ peer' = [peer EXCEPT ![p] = pr]
         /\ out' = sent
         /\ ev' = Event("egress", npackets + 1, "ok")
         /\ UNCHANGED <<index_map, timers, nindices>>

\* the packet is queued; a peer ready for transport has its queue popped
\* and sent (407-415), where a failed encryption ends the handler
EgressRouted(p) ==
    /\ npackets' = npackets + 1
    /\ ninputs < MaxInputs
    /\ ninputs' = ninputs + 1
    /\ LET queued == QueueEgress(peer[p], npackets + 1) IN
       IF ReadyForTransport(queued)
       THEN \E fails \in Fails(queued) :
                LET d == PopFront(queued, fails) IN
                IF d.ok
                THEN EgressHandshake(p, d.peer, d.out)
                ELSE /\ peer' = [peer EXCEPT ![p] = d.peer]
                     /\ out' = d.out
                     /\ ev' = Event("egress", npackets + 1, "err")
                     /\ UNCHANGED <<index_map, timers, nindices>>
       ELSE EgressHandshake(p, queued, <<>>)
    /\ UNCHANGED <<loop, has_key, bound>>

HandleEgressPacket(packet) ==
    /\ loop = "running"
    /\ \/ EgressRejected(packet)
       \/ packet.sized /\ packet.route \in Peers /\ EgressRouted(packet.route)

\* --- the end of a stream (poll, 450, 461, 473, 485): poll returns Err ----
StreamEnds(stream) ==
    /\ loop = "running"
    /\ stream = "ingress" => bound
    /\ loop' = "cancelled"
    /\ ev' = Event("end", 0, "err")
    /\ out' = <<>>
    /\ UNCHANGED <<has_key, bound, index_map, peer, timers, npackets, nindices, ninputs>>

\* --- time passes; a timer is delivered in the tick in which it is due ---
OlderSession(o) ==
    IF IsSome(o)
    THEN Some([Unwrap(o) EXCEPT !.birth = Older(@, REJECT_AFTER_TIME),
                                !.last_sent = Older(@, KEEPALIVE_TIMEOUT),
                                !.last_received = Older(@, KEEPALIVE_TIMEOUT),
                                !.idle = IF @ < 0 THEN @ ELSE Older(@, MaxIdle)])
    ELSE None

OlderPeer(pr) ==
    [pr EXCEPT !.sessions = [s \in Slots |-> OlderSession(pr.sessions[s])],
               !.last_sent_init = Older(@, REKEY_TIMEOUT),
               !.last_handshake = Older(@, REKEY_AFTER_TIME + 1),
               !.last_tun_queue = Older(@, REKEY_ATTEMPT_TIME + 1),
               !.attempt_began = Older(@, REKEY_ATTEMPT_TIME + 1)]

Tick ==
    /\ loop = "running"
    /\ \A t \in timers : t.left > 0
    /\ peer' = [p \in Peers |-> OlderPeer(peer[p])]
    /\ timers' = {[t EXCEPT !.left = @ - 1] : t \in timers}
    /\ ev' = Event("tick", 0, "ok")
    /\ out' = <<>>
    /\ UNCHANGED <<loop, has_key, bound, index_map, npackets, nindices, ninputs>>

\* --- the send tasks (send_to_peer 134-138, rebind 110-118) ---------------
\* no transport datagram has been sent
SendNew ==
    /\ nonce = 0
    /\ tasks = {}
    /\ egress_rx = <<>>
    /\ udp_sink = <<>>

\* The loop sends a transport datagram: handle_outgoing_transport assigns
\* it the next counter, and send_to_peer spawns a task of its own that
\* will send it into the egress channel (136).
SendToPeer ==
    /\ nonce < MaxSends
    /\ nonce' = nonce + 1
    /\ tasks' = tasks \cup {nonce}
    /\ UNCHANGED <<egress_rx, udp_sink, threads>>

\* A spawned task runs: tx.send(payload) puts its datagram into the
\* channel.  Every task sends through a clone of the Sender, which has a
\* slot of its own in the channel, and the reactor runs the spawned tasks
\* in an order send_to_peer does not fix.
SendTaskRuns(n) ==
    /\ n \in tasks
    /\ tasks' = tasks \ {n}
    /\ egress_rx' = Append(egress_rx, n)
    /\ UNCHANGED <<nonce, udp_sink, threads>>

\* udp_writethrough (111-118): send_all forwards the channel to the UDP
\* sink, oldest datagram first
UdpWritethrough ==
    /\ egress_rx /= <<>>
    /\ udp_sink' = Append(udp_sink, Head(egress_rx))
    /\ egress_rx' = Tail(egress_rx)
    /\ UNCHANGED <<nonce, tasks, threads>>

NextSend ==
    \/ SendToPeer /\ UNCHANGED <<devVars, srvVars, pollVars>>
    \/ \E n \in tasks : SendTaskRuns(n) /\ UNCHANGED <<devVars, srvVars, pollVars>>
    \/ UdpWritethrough /\ UNCHANGED <<devVars, srvVars, pollVars>>

NextServer ==
    \/ ConfigPrivateKey /\ UNCHANGED <<devVars, conVars, pollVars>>
    \/ ConfigListenPort /\ UNCHANGED <<devVars, conVars, pollVars>>
    \/ ConfigOther /\ UNCHANGED <<devVars, conVars, pollVars>>
    \/ \E t \in timers : HandleTimer(t) /\ UNCHANGED <<devVars, conVars, pollVars>>
    \/ \E dg \in Datagrams : HandleIngressPacket(dg) /\ UNCHANGED <<devVars, conVars, pollVars>>
    \/ \E packet \in UtunPackets : HandleEgressPacket(packet) /\ UNCHANGED <<devVars, conVars, pollVars>>
    \/ \E stream \in {"config", "timer", "ingress", "egress"} : StreamEnds(stream) /\ UNCHANGED <<devVars, conVars, pollVars>>
    \/ Tick /\ UNCHANGED <<devVars, conVars, pollVars>>

\* --- PeerServer::poll (peer_server.rs 430-490) ---------------------------
\* poll drains its four streams one after the other.  What the handlers do
\* to the peers is modelled above; here a handled event is only taken off
\* its stream, except for a configuration event, which may bind the socket.
Streams == {"config", "timer", "ingress", "egress"}

\* no poll has begun and no stream holds an event
PollNew ==
    /\ polling = "parked"
    /\ pending = [s \in Streams |-> 0]

\* The producer of a stream makes an event ready: the configuration
\* channel, a timer that falls due, a datagram that reaches the bound
\* socket, an inner packet read from the tunnel.  Producers run beside the
\* loop, whatever poll is doing.
Arrives(s) ==
    /\ loop = "running"
    /\ s = "ingress" => bound
    /\ pending[s] < MaxReady
    /\ pending' = [pending EXCEPT ![s] = @ + 1]
    /\ UNCHANGED <<polling, srvVars>>

\* the task is woken when a stream has an event, and poll begins with the
\* configuration events (432)
PollWakes ==
    /\ loop = "running"
    /\ polling = "parked"
    /\ \E s \in Streams : pending[s] > 0
    /\ polling' = "config"
    /\ UNCHANGED <<pending, srvVars>>

\* Ok(Async::Ready(Some(event))) in the loop of a stream: the event is
\* handled and the loop polls the same stream again
Taken(s) ==
    /\ polling = s
    /\ pending[s] > 0
    /\ pending' = [pending EXCEPT ![s] = @ - 1]
    /\ polling' = polling

\* Ok(Async::NotReady) => break: poll goes on to what follows the loop
Breaks(s, then) ==
    /\ loop = "running"
    /\ polling = s
    /\ pending[s] = 0
    /\ polling' = then
    /\ UNCHANGED <<pending, srvVars>>

\* the loop over config.rx (433-452)
PollConfig ==
    /\ Taken("config")
    /\ ConfigPrivateKey \/ ConfigListenPort \/ ConfigOther

PollConfigNotReady == Breaks("config", "timer")

\* the loop over the timer (455-463)
PollTimer ==
    /\ loop = "running"
    /\ Taken("timer")
    /\ ev' = Event("timer", 0, "ok")
    /\ out' = <<>>
    /\ UNCHANGED <<loop, has_key, bound, index_map, peer, timers, npackets, nindices, ninputs>>

PollTimerNotReady == Breaks("timer", "ingress")

\* the loop over the ingress stream (466-476), entered only when the
\* socket is bound
PollIngress ==
    /\ loop = "running"
    /\ bound
    /\ Taken("ingress")
    /\ ev' = Event("ingress", 0, "ok")
    /\ out' = <<>>
    /\ UNCHANGED <<loop, has_key, bound, index_map, peer, timers, npackets, nindices, ninputs>>

PollIngressNotReady ==
    /\ loop = "running"
    /\ polling = "ingress"
    /\ ~bound \/ pending["ingress"] = 0
    /\ polling' = "egress"
    /\ UNCHANGED <<pending, srvVars>>

\* the loop over outgoing.rx (479-487); after it poll returns
\* Ok(Async::NotReady) (489)
PollEgress ==
    /\ loop = "running"
    /\ Taken("egress")
    /\ ev' = Event("egress", 0, "ok")
    /\ out' = <<>>
    /\ UNCHANGED <<loop, has_key, bound, index_map, peer, timers, npackets, nindices, ninputs>>

PollEgressNotReady == Breaks("egress", "parked")

\* one step of poll
PollStep ==
    \/ PollWakes
    \/ PollConfig
    \/ PollConfigNotReady
    \/ PollTimer
    \/ PollTimerNotReady
    \/ PollIngress
    \/ PollIngressNotReady
    \/ PollEgress
    \/ PollEgressNotReady

NextPoll ==
    \/ \E s \in Streams : Arrives(s) /\ UNCHANGED <<devVars, conVars>>
    \/ PollStep /\ UNCHANGED <<devVars, conVars>>

InitPoll == New /\ ServerNew(0) /\ SendNew /\ ThreadsNew /\ PollNew

\* The loop is a task of the reactor and is polled whenever it was woken:
\* a step of poll that stays possible is taken.
SpecPoll == InitPoll /\ [][NextPoll]_vars /\ WF_vars(PollStep /\ UNCHANGED <<devVars, conVars>>)

\* The server starts beside freshly constructed devices.
InitPeerServer == New /\ InitServer /\ SendNew /\ ThreadsNew /\ PollNew

SpecServer == InitPeerServer /\ [][NextServer]_vars

InitAllocate == New /\ ServerNew(0) /\ SendNew /\ ThreadsNew /\ PollNew

SpecAllocate == InitAllocate /\ [][NextAllocate]_vars

InitSend == New /\ ServerNew(0) /\ SendNew /\ ThreadsNew /\ PollNew

SpecSend == InitSend /\ [][NextSend]_vars

\* ========================================================================
\* Part III: specifications
\* ========================================================================
\* ------------------------------------------------------------------------
\* Configuration: add takes &mut self ("A mutable reference to the device
\* needs to be held during configuration", device.rs 23-25).
NextConfig == \E d \in Devs, pk \in PKs : Add(d, pk) /\ UNCHANGED <<srvVars, conVars, pollVars>>

InitConfig == New /\ ServerNew(0) /\ SendNew /\ ThreadsNew /\ PollNew

SpecConfig == InitConfig /\ [][NextConfig]_vars

\* The handshake calls take &self.  They are explored from the configuration
\* of tests::handshake (device.rs 218-222), which SpecConfig reaches: each
\* Device holds the other's key; device 2 holds a third party's before it,
\* so that peer indices 0 and 1 both occur.  As in the test, device 1
\* begins the handshakes and device 2 answers them.
Initiators == {1}

InitDevice ==
    /\ peers = [d \in Devs |-> IF d = 1 THEN <<NewPeer(2)>>
                                ELSE <<NewPeer(3), NewPeer(1)>>]
    /\ pk_map = [d \in Devs |-> IF d = 1 THEN MapInsert(EmptyMap, 2, 0)
                                 ELSE MapInsert(MapInsert(EmptyMap, 3, 0), 1, 1)]
    /\ id_map = [d \in Devs |-> EmptyMap]
    /\ net = {}
    /\ clock = 0
    /\ last = NoCall
    /\ live = [d \in Devs |-> [i \in Ids |-> <<>>]]
    /\ issued = {}

NextDevice ==
    \/ \E d \in Initiators, pk \in PKs : Begin(d, pk) /\ UNCHANGED <<srvVars, conVars, pollVars>>
    \/ \E d \in Devs, m \in net \cup Garbage : Process(d, m) /\ UNCHANGED <<srvVars, conVars, pollVars>>
    \/ \E d \in Devs, id \in Ids : Release(d, id) /\ UNCHANGED <<srvVars, conVars, pollVars>>

InitHandshake == InitDevice /\ ServerNew(0) /\ SendNew /\ ThreadsNew /\ PollNew

SpecDevice == InitHandshake /\ [][NextDevice]_vars

\* ========================================================================
\* Claims
\* ========================================================================

\* C1: the ids allocate returned and release has not taken back are pairwise
\* distinct (no id was returned twice), each is a key of id_map mapped to
\* the peer index it was allocated for, and release(id) removes exactly the
\* entry of id.
C1_AllocatedIdsDistinct ==
    /\ \A d \in Devs, i \in Ids :
          /\ Len(live[d][i]) <= 1
          /\ Len(live[d][i]) = 1 =>
                /\ i \in DOMAIN id_map[d]
                /\ id_map[d][i] = live[d][i][1]
    /\ last.op = "release" =>
          /\ DOMAIN id_map[last.dev] = (DOMAIN last.pre_id) \ {last.arg}
          /\ \A i \in DOMAIN id_map[last.dev] : id_map[last.dev][i] = last.pre_id[i]

\* a release that took one of two allocated ids and left the other
C1_Witness ==
    /\ last.op = "release"
    /\ id_map[last.dev] /= EmptyMap
    /\ \E i \in Ids : Len(live[last.dev][i]) = 1

\* C2: in the PeerServer every key of index_map maps to a peer that holds
\* that index in one of its session slots past, current or next, also after
\* an incoming initiation whose session displaces an existing one.
C2_IndexMapHeld ==
    \A i \in DOMAIN index_map : i \in HeldIndices(peer[index_map[i]])

\* C3: the responder's process(initiation) returns a response and a key
\* pair that is not confirmed; the initiator's process(response) returns no
\* message and a confirmed key pair that mirrors the responder's, ids
\* included; handshake after handshake.
C3_HandshakeKeysMirror ==
    /\ (last.op = "process" /\ last.res.ok /\ last.inp.type = TYPE_INITIATION) =>
          /\ IsSome(last.res.msg)
          /\ Unwrap(last.res.msg).type = TYPE_RESPONSE
          /\ IsSome(last.res.ks)
          /\ ~Unwrap(last.res.ks).confirmed
    /\ (last.op = "process" /\ last.res.ok /\ last.inp.type = TYPE_RESPONSE) =>
          /\ ~IsSome(last.res.msg)
          /\ IsSome(last.res.ks)
          /\ Unwrap(last.res.ks).confirmed
          /\ \E r \in issued : r.msg = last.inp
          /\ \A r \in issued : r.msg = last.inp =>
                /\ Unwrap(last.res.ks).send = r.ks.recv
                /\ Unwrap(last.res.ks).recv = r.ks.send
                /\ Unwrap(last.res.ks).send.id = last.inp.receiver
                /\ r.ks.send.id = last.inp.sender

\* the initiator completed its second handshake with the responder
C3_Witness ==
    /\ last.op = "process"
    /\ last.res.ok
    /\ last.inp.type = TYPE_RESPONSE
    /\ last.inp.ts >= 2

\* C4: a call of begin or process that returns an error leaves id_map as it
\* was before the call.
C4_ErrorLeavesIdMap ==
    (last.op \in {"begin", "process"} /\ ~last.res.ok) =>
        id_map[last.dev] = last.pre_id

\* the timestamp the Device had accepted last from the peer an initiation
\* names, when the call was made (0: none, or no such peer)
C5_LastAccepted ==
    IF last.inp.to = DevicePk(last.dev) /\ last.inp.from \in DOMAIN last.pre_pk
    THEN last.pre_peers[last.pre_pk[last.inp.from] + 1].timestamp
    ELSE 0

\* C5: an initiation is accepted only if its timestamp exceeds the last one
\* accepted from the peer; an initiation processed a second time returns
\* InvalidTimestamp and allocates no id; an initiation fresh from begin
\* carries a timestamp the responder accepts.
C5_TimestampReplay ==
    /\ (last.op = "process" /\ last.inp.type = TYPE_INITIATION) =>
          /\ last.res.ok => last.inp.ts > C5_LastAccepted
          /\ (last.inp.ts > 0 /\ last.inp.ts <= C5_LastAccepted) =>
                /\ last.res.err = "InvalidTimestamp"
                /\ id_map[last.dev] = last.pre_id
          /\ (/\ last.inp.to = DevicePk(last.dev)
              /\ last.inp.from \in DOMAIN last.pre_pk
              /\ last.inp.ts > C5_LastAccepted) =>
                last.res.err /= "InvalidTimestamp"
    /\ (last.op = "begin" /\ last.res.ok) =>
          \A d \in Devs :
             (DevicePk(d) = Unwrap(last.res.msg).to
                /\ Unwrap(last.res.msg).from \in DOMAIN pk_map[d]) =>
             peers[d][pk_map[d][Unwrap(last.res.msg).from] + 1].timestamp
                < Unwrap(last.res.msg).ts

\* the second initiation was accepted, and processed again it is rejected
C5_Witness ==
    /\ last.op = "process"
    /\ last.inp.type = TYPE_INITIATION
    /\ last.inp.ts = 2
    /\ last.inp.ts = C5_LastAccepted
    /\ last.res.err = "InvalidTimestamp"

\* C6: add fails for a registered key and for the Device's own key and then
\* changes neither peers nor pk_map; pk_map is a bijection between the
\* registered keys and the indices 0..len(peers)-1; the Device's own key is
\* never registered.
C6_AddKeepsBijection ==
    /\ \A d \in Devs :
          /\ DOMAIN pk_map[d] = { peers[d][i].pk : i \in 1 .. Len(peers[d]) }
          /\ \A pk \in DOMAIN pk_map[d] :
                /\ pk_map[d][pk] \in 0 .. Len(peers[d]) - 1
                /\ peers[d][pk_map[d][pk] + 1].pk = pk
          /\ Cardinality(DOMAIN pk_map[d]) = Len(peers[d])
          /\ DevicePk(d) \notin DOMAIN pk_map[d]
    /\ (last.op = "add"
          /\ (last.arg \in DOMAIN last.pre_pk \/ last.arg = DevicePk(last.dev))) =>
          /\ ~last.res.ok
          /\ peers[last.dev] = last.pre_peers
          /\ pk_map[last.dev] = last.pre_pk

\* a registered key is added again to a Device that holds two peers
C6_Witness ==
    /\ last.op = "add"
    /\ last.arg \in DOMAIN last.pre_pk
    /\ Len(peers[last.dev]) = 2

\* C7: for every id_map a Device reaches and every peer index, releasing
\* the id allocate returned restores the id_map of before the allocation.
C7_ReleaseRestores ==
    \A d \in Devs : \A idx \in 0 .. Len(peers[d]) - 1 :
       \A a \in Allocate(id_map[d], idx) :
          ReleaseMap(a.map, a.id) = id_map[d]

\* an id_map that holds an entry and has room for another
C7_Witness ==
    \E d \in Devs :
       /\ id_map[d] /= EmptyMap
       /\ \E a \in Allocate(id_map[d], 0) : a.map /= id_map[d]

\* C8: no ingress datagram, whatever its length and content, terminates the
\* PeerServer loop: after the handler of an ingress datagram the loop is
\* still running.
C8_IngressKeepsLoopRunning ==
    ev.kind = "ingress" => loop = "running"

\* C9: when the PeerServer loop is cancelled (a stream ended and poll
\* returned Err), no outbound packet is queued any more and index_map holds
\* no receiver id.
C9_CancelledLoopIsClean ==
    loop = "cancelled" =>
        /\ index_map = EmptyMap
        /\ \A p \in Peers : peer[p].outgoing_queue = <<>>

\* C10: two handshake initiations to one peer are never sent less than
\* REKEY_TIMEOUT apart: whenever a handler sends an initiation, at least
\* REKEY_TIMEOUT has elapsed since the last initiation sent to that peer.
C10_InitiationsThrottled ==
    [][\A k \in DOMAIN out' :
          out'[k].kind = "init" =>
              peer[index_map'[out'[k].pkt]].last_sent_init >= REKEY_TIMEOUT]_vars

\* C11: every established session, on the initiator side and on the
\* responder side alike, has a Reject timer armed for its index, so that
\* it is destroyed and its index removed from index_map once
\* REJECT_AFTER_TIME has elapsed: an established session held in a slot is
\* one a pending Reject timer names.
C11_RejectArmedForEverySession ==
    \A p \in Peers, s \in Slots :
        (IsSome(peer[p].sessions[s]) /\ Unwrap(peer[p].sessions[s]).ready)
            => \E t \in timers : /\ t.kind = "Reject"
                                 /\ t.peer = p
                                 /\ t.idx = Unwrap(peer[p].sessions[s]).idx

\* C12: with a persistent keepalive interval configured, a confirmed
\* session that is the peer's current session has a PersistentKeepAlive
\* timer pending for its index (armed on confirmation, re-armed by each
\* firing).  A session under which an inner packet has just been received
\* and handed to the tunnel is confirmed on either side of the handshake.
C12_PersistentKeepAliveChain ==
    \A p \in Peers :
        (/\ peer[p].keepalive > 0
         /\ IsSome(peer[p].sessions.current)
         /\ \E k \in DOMAIN out : /\ out[k].to = "tunnel"
                                  /\ out[k].pkt = Unwrap(peer[p].sessions.current).idx)
            => \E t \in timers : /\ t.kind = "PersistentKeepAlive"
                                 /\ t.peer = p
                                 /\ t.idx = Unwrap(peer[p].sessions.current).idx

\* the inner packets in a peer's outgoing queue
QueuedPackets(pr) == {pr.outgoing_queue[k] : k \in DOMAIN pr.outgoing_queue}

\* C13: no egress packet routed to a peer is lost: in every step, a packet
\* that was in the peer's outgoing queue, and the packet the step routes to
\* the peer, is afterwards still in the queue or was encrypted and handed
\* to send_to_peer.  (A step that queues onto a full queue is left out: the
\* bounded queue drops its oldest packet by design.)
C13_EgressNeverLost ==
    [][\A p \in Peers :
          Len(peer[p].outgoing_queue) < QueueCap =>
              \A pkt \in QueuedPackets(peer[p])
                           \cup (IF npackets' > npackets THEN {npackets'} ELSE {}) :
                  \/ pkt \in QueuedPackets(peer'[p])
                  \/ \E k \in DOMAIN out' : out'[k] = ToPeer("data", pkt)]_vars

\* C14: the transport datagrams of a peer reach the UDP sink in the order
\* in which their counters were assigned: no datagram with a higher
\* counter is in the sink before one with a lower counter.
C14_SinkInCounterOrder ==
    \A i, j \in DOMAIN udp_sink : i < j => udp_sink[i] < udp_sink[j]

\* C15: an inner packet is handed to the tunnel only when the transport
\* datagram the loop has just handled carried a non-empty inner packet
\* that validate_source accepted: after a keepalive, and after a packet
\* whose source is not permitted, nothing was sent to the tunnel.
C15_TunnelOnlyValidated ==
    \A k \in DOMAIN out :
        out[k].to = "tunnel" =>
            /\ ev.kind = "ingress"
            /\ ev.arg = 4
            /\ ev.inner = "data"
            /\ out[k].pkt \in DOMAIN index_map

\* a transport datagram has decrypted, under the peer's current session,
\* to a packet that failed validate_source
C15_Witness ==
    /\ ev.kind = "ingress"
    /\ ev.inner = "badsource"
    /\ ev.res = "err"
    /\ \E p \in Peers : IsSome(peer[p].sessions.current)

\* C16: a step in which the loop handles a transport datagram whose
\* receiver index is not a key of index_map changes no peer (sessions,
\* queue, timestamps), leaves index_map and the timers as they were, and
\* sends nothing to a peer or to the tunnel.
C16_UnknownReceiverDropped ==
    [][\/ /\ peer' = peer
          /\ index_map' = index_map
          /\ timers' = timers
          /\ out' = <<>>
          /\ loop' = loop
       \/ \A dg \in {d \in Datagrams : d.type = 4 /\ d.shape = "ok"} :
              ~(dg.idx \notin DOMAIN index_map /\ HandleIngressPacket(dg))]_vars

\* a transport datagram was rejected while index_map had no key at all,
\* after sessions had existed
C16_Witness ==
    /\ ev = Event("ingress", 4, "err")
    /\ index_map = EmptyMap
    /\ nindices > 0

\* C17: under every interleaving of threads inside Device::allocate, no
\* two threads return the same id, and the id_map entry a thread inserted
\* is never overwritten by another thread: it still names the peer index
\* of the thread that returned the id.
C17_ConcurrentAllocateDistinct ==
    /\ \A t1, t2 \in Threads :
          (/\ t1 /= t2
           /\ threads[t1].pc = "returned"
           /\ threads[t2].pc = "returned")
              => threads[t1].id /= threads[t2].id
    /\ \A t \in Threads :
          threads[t].pc = "returned"
              => /\ threads[t].id \in DOMAIN id_map[1]
                 /\ id_map[1][threads[t].id] = t

\* a thread found, under the write lock, the id it had probed as free
\* taken by another thread; both have returned since
C17_Witness ==
    \E t1, t2 \in Threads :
        /\ t1 /= t2
        /\ threads[t1].lost
        /\ threads[t2].pc = "returned"
        /\ threads[t1].pc = "returned"

\* C18: a step in which send_handshake_init sends an initiation for a peer
\* that holds a session in its next slot puts the new session there,
\* inserts the new index into index_map and removes the index of the
\* session that was in next, which no slot of the peer holds any more.
C18_InitReplacesNext ==
    [][\A p \in Peers : \A k \in DOMAIN out' :
          (out'[k].kind = "init" /\ IsSome(peer[p].sessions.next))
              => LET old == Unwrap(peer[p].sessions.next).idx
                     new == out'[k].pkt
                 IN  /\ new /= old
                     /\ IsSome(peer'[p].sessions.next)
                     /\ Unwrap(peer'[p].sessions.next).idx = new
                     /\ new \in DOMAIN index_map'
                     /\ index_map'[new] = p
                     /\ old \notin DOMAIN index_map'
                     /\ old \notin HeldIndices(peer'[p])]_vars

\* the Rekey timer of a session waiting in next has sent a new initiation:
\* the index the timer names is gone
C18_Witness ==
    /\ ev.kind = "Rekey"
    /\ ev.res = "ok"
    /\ \E k \in DOMAIN out : out[k].kind = "init"
    /\ ev.arg \notin DOMAIN index_map
    /\ \A p \in Peers : ev.arg \notin HeldIndices(peer[p])

\* C19: a handshake whose initiation is never answered is discarded after
\* REJECT_AFTER_TIME: a session that still waits for its response in the
\* next slot, with its index in index_map, is younger than
\* REJECT_AFTER_TIME, or a Reject timer for it is due.
C19_UnansweredDiscarded ==
    \A p \in Peers :
        (/\ IsSome(peer[p].sessions.next)
         /\ ~Unwrap(peer[p].sessions.next).ready
         /\ Unwrap(peer[p].sessions.next).idx \in DOMAIN index_map
         /\ Unwrap(peer[p].sessions.next).birth >= REJECT_AFTER_TIME)
            => \E t \in timers : /\ t.kind = "Reject"
                                 /\ t.peer = p
                                 /\ t.idx = Unwrap(peer[p].sessions.next).idx

\* C20: a step in which a timer fires for an index that no slot of its
\* peer holds changes none of the peer's session slots, sends nothing and
\* arms no timer; and a step in which a PassiveKeepAlive or
\* PersistentKeepAlive timer sends a datagram is one whose index is the
\* peer's current session.
C20_StaleTimerDropped ==
    [][\A t \in timers :
          (t.left = 0 /\ HandleTimer(t))
              => /\ t.idx \notin HeldIndices(peer[t.peer])
                     => /\ peer'[t.peer].sessions = peer[t.peer].sessions
                        /\ out' = <<>>
                        /\ timers' = timers \ {t}
                 /\ (t.kind \in {"PassiveKeepAlive", "PersistentKeepAlive"} /\ out' /= <<>>)
                     => FindSession(peer[t.peer], t.idx) = "current"]_vars

\* a Rekey or keepalive timer has fired for an index its peer holds in no
\* slot, and was dropped
C20_Witness ==
    /\ ev.kind \in {"Rekey", "PassiveKeepAlive", "PersistentKeepAlive"}
    /\ ev.res = "err"
    /\ \A p \in Peers : ev.arg \notin HeldIndices(peer[p])
    /\ out = <<>>

\* C21: retransmission stops once REKEY_ATTEMPT_TIME has elapsed since the
\* first initiation of the attempt: a step in which the Rekey timer of a
\* session waiting in next sends an initiation is taken no later than
\* REKEY_ATTEMPT_TIME after the attempt series began.
C21_RetransmitWithinAttemptTime ==
    [][\A p \in Peers :
          (/\ ev'.kind = "Rekey"
           /\ ev'.res = "ok"
           /\ FindSession(peer[p], ev'.arg) = "next"
           /\ \E k \in DOMAIN out' : out'[k].kind = "init")
              => peer[p].attempt_began <= REKEY_ATTEMPT_TIME]_vars


\* C22: a session the initiator confirms is rekeyed by its Rekey timer once
\* REKEY_AFTER_TIME has passed.  A Rekey timer for an index is armed only
\* when send_handshake_init creates the session (292-294) and by the Rekey
\* handler of that same index (308-309, 320-321), so the timer can fire for
\* the confirmed session only if it is pending when the response is
\* accepted: in a step in which the session waiting in next for its
\* response becomes current, a Rekey timer for its index is armed.
C22_RekeyPendingWhenConfirmed ==
    [][\A p \in Peers, i \in Indices :
          (/\ FindSession(peer[p], i) = "next"
           /\ ~Unwrap(peer[p].sessions.next).ready
           /\ FindSession(peer'[p], i) = "current")
              => \E t \in timers' : t.kind = "Rekey" /\ t.peer = p /\ t.idx = i]_vars


\* C23: in every idle period of the current session a passive keepalive is
\* sent.  The PassiveKeepAlive timer is never armed for longer than
\* KEEPALIVE_TIMEOUT + TIMER_RESOLUTION, so the keepalive is sent no later
\* than that after the reception: the current session is never idle (a
\* transport datagram received, none sent since) for longer.
C23_KeepaliveInEveryIdlePeriod ==
    \A p \in Peers :
        IsSome(peer[p].sessions.current)
            => Unwrap(peer[p].sessions.current).idle <= KEEPALIVE_TIMEOUT + TIMER_RESOLUTION


\* C24: packets queued while no session was ready do not stay queued once a
\* session is ready: at the end of every handler, a peer that is ready for
\* transport has an empty outgoing queue.  (Time alone makes no peer ready,
\* so this is the state after a handler.)
C24_ReadyPeerHasEmptyQueue ==
    \A p \in Peers : ReadyForTransport(peer[p]) => peer[p].outgoing_queue = <<>>


\* C25: a pending timer firing is eventually handled, even under a
\* continuous flow of ingress datagrams: if configuration events and egress
\* packets cease to arrive, then whenever the timer stream holds as many
\* firings as it can, one of them is eventually taken off it, whatever the
\* ingress stream does.
C25_PendingTimerHandled ==
    <>[](pending["config"] = 0 /\ pending["egress"] = 0)
        => ((pending["timer"] = MaxReady) ~> (pending["timer"] < MaxReady))


\* C26: a step accepts the response for index i of peer p when the session
\* that waited for it in next is current afterwards.
C26_Accepts(p, i) ==
    /\ FindSession(peer[p], i) = "next"
    /\ ~Unwrap(peer[p].sessions.next).ready
    /\ FindSession(peer'[p], i) = "current"

C26_Armed(ts, kind, i) == \E t \in ts : t.kind = kind /\ t.idx = i

\* C26: every accepted response is followed in the same step by the queued
\* packets in queue order, or by exactly one keepalive when nothing is
\* queued; and a PassiveKeepAlive or Reject timer is armed for an index
\* that had none only in a step that accepts the response for that index.
C26_AcceptedResponseSends ==
    [][\A p \in Peers, i \in Indices :
          /\ C26_Accepts(p, i)
                => out' = IF peer[p].outgoing_queue /= <<>>
                          THEN Drained(peer[p])
                          ELSE <<Keepalive>>
          /\ \A kind \in {"PassiveKeepAlive", "Reject"} :
                (C26_Armed(timers', kind, i) /\ ~C26_Armed(timers, kind, i))
                    => C26_Accepts(p, i)]_vars

=============================================================================
